---------------------------- MODULE Spec2Model ----------------------------
(***************************************************************************)
(* Software rasterizer of the PlayStation GPU emulation: ShadePixel,       *)
(* DrawRectangle, DrawLine and DrawTriangle, as they act on g_vram under   *)
(* g_drawing_area.                                                         *)
(*                                                                         *)
(* Representation.  g_vram is the array of 1024*512 16-bit words; the      *)
(* variable vram holds it as a function from the linear index              *)
(* VRAM_WIDTH * y + x to the word, listing only the non-zero words.        *)
(* 64-bit fixed-point values (32.32) are held in three limbs               *)
(* <<int, hi16, lo16>> and u32 attribute accumulators in two limbs         *)
(* <<hi16, lo16>>, because the checker's integers are 32 bits wide; the    *)
(* arithmetic on limbs is exact.                                           *)
(***************************************************************************)
EXTENDS Integers, Sequences, FiniteSets, TLC

VARIABLES
  vram,          \* g_vram
  drawing_area,  \* g_drawing_area
  hist,          \* the draw calls made so far, each with VRAM as it was before
  bl             \* SpecBlend: the two words blended, the mode and the result

vars == <<vram, drawing_area, hist, bl>>

---------------------------------------------------------------------------
(* Program constants *)

VRAM_WIDTH == 1024

VRAM_HEIGHT == 512

MAX_PRIMITIVE_WIDTH == 1024

MAX_PRIMITIVE_HEIGHT == 512

Line_RGB_FractBits == 12

COORD_FBS == 12

COORD_POST_PADDING == 12

---------------------------------------------------------------------------
(* Bounds of the model *)

\* number of consecutive draw calls in a run of Spec
MaxDraws == 2

\* largest width and height of a sprite, in pixels
MaxSize == 2

\* vertices lie on the grid 0 .. MaxCoord in x and y, or far away
MaxCoord == 3

---------------------------------------------------------------------------
(* Machine arithmetic *)

Pow2(n) == 2 ^ n

MinOf(a, b) == IF a < b THEN a ELSE b

MaxOf(a, b) == IF a > b THEN a ELSE b

Abs(a) == IF a < 0 THEN -a ELSE a

\* C++ integer division truncates toward zero
TruncDiv(a, b) ==
  IF (a >= 0) = (b > 0) THEN Abs(a) \div Abs(b) ELSE -(Abs(a) \div Abs(b))

RECURSIVE BitAnd(_, _)
BitAnd(a, b) ==
  IF a = 0 \/ b = 0 THEN 0
  ELSE (a % 2) * (b % 2) + 2 * BitAnd(a \div 2, b \div 2)

RECURSIVE BitOr(_, _)
BitOr(a, b) ==
  IF a = 0 THEN b
  ELSE IF b = 0 THEN a
  ELSE MaxOf(a % 2, b % 2) + 2 * BitOr(a \div 2, b \div 2)

RECURSIVE BitXor(_, _)
BitXor(a, b) ==
  IF a = 0 THEN b
  ELSE IF b = 0 THEN a
  ELSE ((a + b) % 2) + 2 * BitXor(a \div 2, b \div 2)

\* a & ~m, for m a single bit or a mask
BitClear(a, m) == a - BitAnd(a, m)

Truncate16(a) == a % 65536

Truncate8(a) == a % 256

Bit15(w) == (w \div 32768) % 2

\* the three 5-bit channels of a word
Chan(w, i) == (w \div Pow2(5 * i)) % 32

---------------------------------------------------------------------------
(* Semi-transparency: the switch on cmd->draw_mode.transparency_mode *)

HalfBackgroundPlusHalfForeground == 0

BackgroundPlusForeground == 1

BackgroundMinusForeground == 2

BackgroundPlusQuarterForeground == 3

TransparencyModes == 0 .. 3

BlendHalf(fg_bits, bg_color) ==
  LET bg_bits == BitOr(bg_color, 32768)
  IN  Truncate16(((fg_bits + bg_bits) - BitAnd(BitXor(fg_bits, bg_bits), 1057)) \div 2)

\* variant: the carries are removed but the channels are not filled
BlendAddTailNoFill(fg_bits, bg_bits) ==
  LET sum == fg_bits + bg_bits
      carry == BitAnd(sum - BitAnd(BitXor(fg_bits, bg_bits), 33825), 33824)
  IN  Truncate16(sum - carry)

BlendAddTail(fg_bits, bg_bits) ==
  LET sum == fg_bits + bg_bits
      carry == BitAnd(sum - BitAnd(BitXor(fg_bits, bg_bits), 33825), 33824)
  IN  Truncate16(BitOr(sum - carry, carry - (carry \div 32)))

\* variant: the foreground is quartered as in BackgroundPlusQuarterForeground
BlendAddQuarterFg(fg_bits, bg_color) ==
  BlendAddTail(BitOr(BitAnd(fg_bits \div 4, 7399), 32768), BitClear(bg_color, 32768))

BlendAdd(fg_bits, bg_color) ==
  BlendAddTail(fg_bits, BitClear(bg_color, 32768))

\* variant: the borrows are removed but the channels are not cleared
BlendSubNoClear(fg_color, bg_color) ==
  LET bg_bits == BitOr(bg_color, 32768)
      fg_bits == BitClear(fg_color, 32768)
      diff == bg_bits - fg_bits + 1082400
      borrow == BitAnd(diff - BitAnd(BitXor(bg_bits, fg_bits), 1082400), 1082400)
  IN  Truncate16(diff - borrow)

BlendSub(fg_color, bg_color) ==
  LET bg_bits == BitOr(bg_color, 32768)
      fg_bits == BitClear(fg_color, 32768)
      diff == bg_bits - fg_bits + 1082400
      borrow == BitAnd(diff - BitAnd(BitXor(bg_bits, fg_bits), 1082400), 1082400)
  IN  Truncate16(BitAnd(diff - borrow, borrow - (borrow \div 32)))

BlendQuarter(fg_color, bg_color) ==
  BlendAddTail(BitOr(BitAnd(fg_color \div 4, 7399), 32768), BitClear(bg_color, 32768))

\* the value of `color` after the switch, from color and bg_color before it
Blend(mode, color, bg_color) ==
  CASE mode = HalfBackgroundPlusHalfForeground -> BlendHalf(color, bg_color)
    [] mode = BackgroundPlusForeground -> BlendAdd(color, bg_color)
    [] mode = BackgroundMinusForeground -> BlendSub(color, bg_color)
    [] mode = BackgroundPlusQuarterForeground -> BlendQuarter(color, bg_color)
    [] OTHER -> color

---------------------------------------------------------------------------
(* g_vram and its accessors *)

GetPixel(v, x, y) ==
  LET i == VRAM_WIDTH * y + x
  IN  IF i \in DOMAIN v THEN v[i] ELSE 0

SetPixel(v, x, y, value) ==
  LET i == VRAM_WIDTH * y + x
  IN  IF value = 0
        THEN [j \in DOMAIN v \ {i} |-> v[j]]
        ELSE [j \in DOMAIN v \cup {i} |-> IF j = i THEN value ELSE v[j]]

\* the words of VRAM that differ between two contents, as linear indices
Changed(v, w) ==
  { i \in DOMAIN v \cup DOMAIN w :
      (IF i \in DOMAIN v THEN v[i] ELSE 0) # (IF i \in DOMAIN w THEN w[i] ELSE 0) }

XOf(i) == i % VRAM_WIDTH

YOf(i) == i \div VRAM_WIDTH

---------------------------------------------------------------------------
(* g_dither_lut[y][x][value]: the 4x4 ordered dither of a 9-bit value,     *)
(* clamped to 5 bits; entry [2][3] adds nothing.                           *)

DITHER_MATRIX ==
  << <<-4, 0, -3, 1>>, <<2, -2, 3, -1>>, <<-3, 1, -4, 0>>, <<3, -1, 2, -2>> >>

DitherLUT(dither_y, dither_x, value) ==
  LET t == (value + DITHER_MATRIX[dither_y + 1][dither_x + 1]) \div 8
  IN  IF t < 0 THEN 0 ELSE IF t > 31 THEN 31 ELSE t

---------------------------------------------------------------------------
(* ShadePixel<texture_enable, raw_texture_enable, transparency_enable,     *)
(*            dithering_enable>; fl holds the four template arguments.     *)

Palette4Bit == 0

Palette8Bit == 1

Direct16Bit == 2

TextureModes == 0 .. 2

GetMaskAND(cmd) == cmd.params.mask_and

\* variant: no mask bit is set in the words written
GetMaskORNone(cmd) == 0

GetMaskOR(cmd) == cmd.params.mask_or

\* texture window
WindowX(cmd, texcoord_x) == BitOr(BitAnd(texcoord_x, cmd.window.and_x), cmd.window.or_x)

WindowY(cmd, texcoord_y) == BitOr(BitAnd(texcoord_y, cmd.window.and_y), cmd.window.or_y)

\* texture_color, from the texture coordinates after the window
TextureColor(v, cmd, tx, ty) ==
  LET px == cmd.draw_mode.page_x
      py == cmd.draw_mode.page_y
  IN  CASE cmd.draw_mode.texture_mode = Palette4Bit ->
             LET palette_value == GetPixel(v, (px + (tx \div 4)) % VRAM_WIDTH, (py + ty) % VRAM_HEIGHT)
                 palette_index == (palette_value \div Pow2((tx % 4) * 4)) % 16
             IN  GetPixel(v, (cmd.palette.xbase + palette_index) % VRAM_WIDTH, cmd.palette.ybase)
        [] cmd.draw_mode.texture_mode = Palette8Bit ->
             LET palette_value == GetPixel(v, (px + (tx \div 2)) % VRAM_WIDTH, (py + ty) % VRAM_HEIGHT)
                 palette_index == (palette_value \div Pow2((tx % 2) * 8)) % 256
             IN  GetPixel(v, (cmd.palette.xbase + palette_index) % VRAM_WIDTH, cmd.palette.ybase)
        [] OTHER ->
             GetPixel(v, (px + tx) % VRAM_WIDTH, (py + ty) % VRAM_HEIGHT)

\* the texel a textured pixel samples
SampleTexel(v, cmd, texcoord_x, texcoord_y) ==
  TextureColor(v, cmd, WindowX(cmd, texcoord_x), WindowY(cmd, texcoord_y))

\* color of a textured, non-raw pixel
ModulateColor(fl, x, y, texture_color, color_r, color_g, color_b) ==
  LET dither_y == IF fl.dither THEN y % 4 ELSE 2
      dither_x == IF fl.dither THEN x % 4 ELSE 3
  IN  DitherLUT(dither_y, dither_x, ((texture_color % 32) * color_r) \div 16)
      + 32 * DitherLUT(dither_y, dither_x, (((texture_color \div 32) % 32) * color_g) \div 16)
      + 1024 * DitherLUT(dither_y, dither_x, (((texture_color \div 1024) % 32) * color_b) \div 16)
      + BitAnd(texture_color, 32768)

\* color of a non-textured pixel
FlatColor(fl, x, y, color_r, color_g, color_b) ==
  LET dither_y == IF fl.dither THEN y % 4 ELSE 2
      dither_x == IF fl.dither THEN x % 4 ELSE 3
  IN  DitherLUT(dither_y, dither_x, color_r)
      + 32 * DitherLUT(dither_y, dither_x, color_g)
      + 1024 * DitherLUT(dither_y, dither_x, color_b)
      + (IF fl.transparent THEN 32768 ELSE 0)

\* variant: the blend does not depend on transparency_enable
BlendGateAlways(fl, color) == BitAnd(color, 32768) # 0 \/ ~fl.texture

\* variant: bit 15 of the colour is not tested
BlendGateAnyTexel(fl, color) == fl.transparent

\* whether the semi-transparency switch is entered
BlendGate(fl, color) == fl.transparent /\ (BitAnd(color, 32768) # 0 \/ ~fl.texture)

\* variant: bit 15 is not cleared for a non-textured pixel
BlendStageKeepsBit(cmd, fl, color, bg_color) ==
  IF BlendGate(fl, color)
    THEN Blend(cmd.draw_mode.transparency_mode, color, bg_color)
    ELSE color

\* color after the semi-transparency block
BlendStage(cmd, fl, color, bg_color) ==
  IF BlendGate(fl, color)
    THEN LET c == Blend(cmd.draw_mode.transparency_mode, color, bg_color)
         IN  IF ~fl.texture THEN BitClear(c, 32768) ELSE c
    ELSE color

\* variant: the mask test is left out
MaskTestOmitted(cmd, bg_color) == FALSE

\* variant: the mask test has its comparison inverted
MaskTestInverted(cmd, bg_color) == BitAnd(bg_color, GetMaskAND(cmd)) = 0

\* the mask test: TRUE when the write is suppressed
MaskTest(cmd, bg_color) == BitAnd(bg_color, GetMaskAND(cmd)) # 0

\* variant: a zero texel is shaded like any other
TexelDiscardOmitted(texture_color) == FALSE

\* the texel-zero discard
TexelDiscard(texture_color) == texture_color = 0

ShadePixel(v, cmd, fl, x, y, color_r, color_g, color_b, texcoord_x, texcoord_y) ==
  LET texture_color == SampleTexel(v, cmd, texcoord_x, texcoord_y)
      color == IF fl.texture
                 THEN IF fl.raw
                        THEN texture_color
                        ELSE ModulateColor(fl, x, y, texture_color, color_r, color_g, color_b)
                 ELSE FlatColor(fl, x, y, color_r, color_g, color_b)
      bg_color == GetPixel(v, x, y)
  IN  IF fl.texture /\ TexelDiscard(texture_color) THEN v
      ELSE IF MaskTest(cmd, bg_color) THEN v
      ELSE SetPixel(v, x, y, BitOr(BlendStage(cmd, fl, color, bg_color), GetMaskOR(cmd)))

---------------------------------------------------------------------------
(* DrawRectangle<texture_enable, raw_texture_enable, transparency_enable>  *)

\* variant: the rows of the other field are skipped
InterlaceSkipOtherField(cmd, y) ==
  cmd.params.interlaced_rendering /\ cmd.params.active_line_lsb # (Truncate8(y) % 2)

InterlaceSkip(cmd, y) ==
  cmd.params.interlaced_rendering /\ cmd.params.active_line_lsb = (Truncate8(y) % 2)

RectRowSkip(da, cmd, y) ==
  y < da.top \/ y > da.bottom \/ InterlaceSkip(cmd, y)

RectColSkip(da, x) == x < da.left \/ x > da.right

RECURSIVE RectLoop(_, _, _, _, _, _)
RectLoop(v, da, cmd, fl, offset_y, offset_x) ==
  IF offset_y >= cmd.height THEN v
  ELSE LET y == cmd.y + offset_y
       IN  IF RectRowSkip(da, cmd, y) \/ offset_x >= cmd.width
             THEN RectLoop(v, da, cmd, fl, offset_y + 1, 0)
             ELSE LET x == cmd.x + offset_x
                      texcoord_y == Truncate8(cmd.texcoord.y + offset_y)
                      texcoord_x == Truncate8(cmd.texcoord.x + offset_x)
                  IN  RectLoop(IF RectColSkip(da, x) THEN v
                               ELSE ShadePixel(v, cmd, [fl EXCEPT !.dither = FALSE], x, y,
                                               cmd.color.r, cmd.color.g, cmd.color.b,
                                               texcoord_x, texcoord_y),
                               da, cmd, fl, offset_y, offset_x + 1)

DrawRectangle(v, da, cmd, fl) == RectLoop(v, da, cmd, fl, 0, 0)

\* &DrawRectangle<texture, raw_texture, transparency>
Rect(texture, raw_texture, transparency) ==
  [shading |-> FALSE, texture |-> texture = 1, raw |-> raw_texture = 1,
   transparent |-> transparency = 1, dither |-> FALSE]

\* the table, indexed [texture][raw_texture][transparency] (each index + 1)
DrawRectangleTable ==
  << << <<Rect(0,0,0), Rect(0,0,1)>>, <<Rect(0,0,0), Rect(0,0,1)>> >>,
     << <<Rect(1,0,0), Rect(1,0,1)>>, <<Rect(1,1,0), Rect(1,1,1)>> >> >>

DrawRectangleFunctions(texture, raw_texture, transparency) ==
  DrawRectangleTable[(IF texture THEN 1 ELSE 0) + 1][(IF raw_texture THEN 1 ELSE 0) + 1]
                    [(IF transparency THEN 1 ELSE 0) + 1]

---------------------------------------------------------------------------
(* 64-bit fixed point (32 fractional bits) in limbs: <<i, h, l>> stands    *)
(* for i * 2^32 + h * 2^16 + l with 0 <= h, l < 2^16.  For vertex          *)
(* coordinates of 11 bits no value leaves the range of s64.                *)

FxNorm(i, h, l) ==
  LET h2 == h + (l \div 65536)
  IN  <<i + (h2 \div 65536), h2 % 65536, l % 65536>>

FxAdd(a, b) == FxNorm(a[1] + b[1], a[2] + b[2], a[3] + b[3])

FxNeg(a) == FxNorm(-a[1], -a[2], -a[3])

FxSub(a, b) == FxAdd(a, FxNeg(b))

\* a * n for a small integer n of either sign
FxMulInt(a, n) == FxNorm(a[1] * n, a[2] * n, a[3] * n)

FxLess(a, b) ==
  \/ a[1] < b[1]
  \/ a[1] = b[1] /\ a[2] < b[2]
  \/ a[1] = b[1] /\ a[2] = b[2] /\ a[3] < b[3]

FxIsNeg(a) == a[1] < 0

\* (xfp >> 32), arithmetic
FxInt(a) == a[1]

\* ((delta << 32) -+ (dk - 1)) / dk with the truncating division of C++:
\* the body shared by LineDivide and MakePolyXFPStep (dk > 0)
FxDivAway(delta, dk) ==
  IF delta = 0 THEN <<0, 0, 0>>
  ELSE LET d == Abs(delta)
           q2 == d \div dk
           t1 == (d % dk) * 65536
           q1 == t1 \div dk
           t0 == (t1 % dk) * 65536 + (dk - 1)
           q0 == t0 \div dk
           q == <<q2, q1, q0>>
       IN  IF delta < 0 THEN FxNeg(q) ELSE q

---------------------------------------------------------------------------
(* DrawLine<shading_enable, transparency_enable, dithering_enable>         *)

LineDivide(delta, dk) == FxDivAway(delta, dk)

LineRejected(p0, p1) ==
  Abs(p1.x - p0.x) >= MAX_PRIMITIVE_WIDTH \/ Abs(p1.y - p0.y) >= MAX_PRIMITIVE_HEIGHT

LineK(p0, p1) == MaxOf(Abs(p1.x - p0.x), Abs(p1.y - p0.y))

\* variant: the endpoints are never exchanged
LineSwapNever(p0, p1) == FALSE

\* if (p0->x >= p1->x && k > 0) std::swap(p0, p1)
LineSwap(p0, p1) == p0.x >= p1.x /\ LineK(p0, p1) > 0

\* p0, p1, k and step after the swap, and cur_point before the loop
LineSetup(a, b, fl) ==
  LET k == LineK(a, b)
      p0 == IF LineSwap(a, b) THEN b ELSE a
      p1 == IF LineSwap(a, b) THEN a ELSE b
      dx_dk == IF k = 0 THEN <<0, 0, 0>> ELSE LineDivide(p1.x - p0.x, k)
      dy_dk == IF k = 0 THEN <<0, 0, 0>> ELSE LineDivide(p1.y - p0.y, k)
      cx == FxSub(<<p0.x, 32768, 0>>, <<0, 0, 1024>>)
      cy0 == <<p0.y, 32768, 0>>
      cy == IF FxIsNeg(dy_dk) THEN FxSub(cy0, <<0, 0, 1024>>) ELSE cy0
  IN  [k |-> k, p0 |-> p0, p1 |-> p1,
       dx_dk |-> dx_dk, dy_dk |-> dy_dk,
       dr_dk |-> IF k = 0 THEN 0 ELSE TruncDiv((p1.r - p0.r) * Pow2(Line_RGB_FractBits), k),
       dg_dk |-> IF k = 0 THEN 0 ELSE TruncDiv((p1.g - p0.g) * Pow2(Line_RGB_FractBits), k),
       db_dk |-> IF k = 0 THEN 0 ELSE TruncDiv((p1.b - p0.b) * Pow2(Line_RGB_FractBits), k),
       cur |-> [x |-> cx, y |-> cy,
                r |-> p0.r * Pow2(Line_RGB_FractBits) + Pow2(Line_RGB_FractBits - 1),
                g |-> p0.g * Pow2(Line_RGB_FractBits) + Pow2(Line_RGB_FractBits - 1),
                b |-> p0.b * Pow2(Line_RGB_FractBits) + Pow2(Line_RGB_FractBits - 1)]]

LineX(cur) == FxInt(cur.x) % 2048

LineY(cur) == FxInt(cur.y) % 2048

\* the test that guards ShadePixel in the loop
LineVisible(da, cmd, x, y) ==
  /\ ~cmd.params.interlaced_rendering \/ cmd.params.active_line_lsb # (Truncate8(y) % 2)
  /\ x >= da.left /\ x <= da.right
  /\ y >= da.top /\ y <= da.bottom

\* variant: cur_point.y is not advanced
LineAdvanceXOnly(L, cur) ==
  [x |-> FxAdd(cur.x, L.dx_dk), y |-> cur.y,
   r |-> cur.r + L.dr_dk, g |-> cur.g + L.dg_dk, b |-> cur.b + L.db_dk]

LineAdvance(L, cur) ==
  [x |-> FxAdd(cur.x, L.dx_dk), y |-> FxAdd(cur.y, L.dy_dk),
   r |-> cur.r + L.dr_dk, g |-> cur.g + L.dg_dk, b |-> cur.b + L.db_dk]

LineShade(v, cmd, fl, L, cur) ==
  LET r == IF fl.shading THEN Truncate8(cur.r \div Pow2(Line_RGB_FractBits)) ELSE L.p0.r
      g == IF fl.shading THEN Truncate8(cur.g \div Pow2(Line_RGB_FractBits)) ELSE L.p0.g
      b == IF fl.shading THEN Truncate8(cur.b \div Pow2(Line_RGB_FractBits)) ELSE L.p0.b
  IN  ShadePixel(v, cmd, [fl EXCEPT !.texture = FALSE, !.raw = FALSE],
                 LineX(cur), LineY(cur), r, g, b, 0, 0)

RECURSIVE LineLoop(_, _, _, _, _, _, _)
LineLoop(v, da, cmd, fl, L, cur, i) ==
  IF i > L.k THEN v
  ELSE LineLoop(IF LineVisible(da, cmd, LineX(cur), LineY(cur))
                  THEN LineShade(v, cmd, fl, L, cur)
                  ELSE v,
                da, cmd, fl, L, LineAdvance(L, cur), i + 1)

\* the positions (x, y) of the iterations of the loop, in order
RECURSIVE LineVisits(_, _, _)
LineVisits(L, cur, i) ==
  IF i > L.k THEN <<>>
  ELSE <<<<LineX(cur), LineY(cur)>>>> \o LineVisits(L, LineAdvance(L, cur), i + 1)

\* cur_point.x and cur_point.y after k additions of the step
LineEnd(L) ==
  [x |-> FxAdd(L.cur.x, FxMulInt(L.dx_dk, L.k)),
   y |-> FxAdd(L.cur.y, FxMulInt(L.dy_dk, L.k))]

\* the divisor of each division DrawLine executes: dk of the two LineDivide
\* calls, then k of the three colour steps with shading enabled
LineDivisors(p0, p1, fl) ==
  IF LineRejected(p0, p1) \/ LineK(p0, p1) = 0 THEN <<>>
  ELSE [i \in 1 .. (IF fl.shading THEN 5 ELSE 2) |-> LineK(p0, p1)]

DrawLine(v, da, cmd, fl, p0, p1) ==
  IF LineRejected(p0, p1) THEN v
  ELSE LET L == LineSetup(p0, p1, fl)
       IN  LineLoop(v, da, cmd, fl, L, L.cur, 0)

\* &DrawLine<shading, transparency, dithering>
Line(shading, transparency, dithering) ==
  [shading |-> shading = 1, texture |-> FALSE, raw |-> FALSE,
   transparent |-> transparency = 1, dither |-> dithering = 1]

\* the table, indexed [shading][transparency][dithering] (each index + 1)
DrawLineTable ==
  << << <<Line(0,0,0), Line(0,0,1)>>, <<Line(0,1,0), Line(0,1,1)>> >>,
     << <<Line(1,0,0), Line(1,0,1)>>, <<Line(1,1,0), Line(1,1,1)>> >> >>

DrawLineFunctions(shading, transparency, dithering) ==
  DrawLineTable[(IF shading THEN 1 ELSE 0) + 1][(IF transparency THEN 1 ELSE 0) + 1]
               [(IF dithering THEN 1 ELSE 0) + 1]

---------------------------------------------------------------------------
(* u32 attribute arithmetic in limbs: <<h, l>> stands for h * 2^16 + l.    *)

U32Norm(h, l) == <<(h + (l \div 65536)) % 65536, l % 65536>>

U32Add(a, b) == U32Norm(a[1] + b[1], a[2] + b[2])

\* a * count modulo 2^32; count is the s32 argument before its conversion
\* to u32, which changes nothing modulo 2^32
U32MulInt(a, count) == U32Norm(a[1] * count, a[2] * count)

\* (u32)q << COORD_POST_PADDING
U32ShlPad(q) == U32Norm(q \div 16, (q % 16) * Pow2(COORD_POST_PADDING))

\* value >> (COORD_FBS + COORD_POST_PADDING)
U32Shr24(a) == a[1] \div 256

---------------------------------------------------------------------------
(* DrawTriangle<shading_enable, texture_enable, raw_texture_enable,        *)
(*              transparency_enable, dithering_enable>                     *)

\* sign extension of the low 11 bits
TruncateGPUVertexPosition(x) == ((x + 1024) % 2048) - 1024

\* variant: a whole pixel is added instead of 1 - 2^-21
MakePolyXFPWhole(x) == <<x + 1, 0, 0>>

MakePolyXFP(x) == <<x, 65535, 63488>>

MakePolyXFPStep(dx, dy) == FxDivAway(dx, dy)

GetPolyXFP_Int(xfp) == FxInt(xfp)

\* cvtemp before the sort: a one-hot mask of the vertex chosen by x
InitialCvtemp(v0, v1, v2) ==
  IF v1.x <= v0.x
    THEN IF v2.x <= v1.x THEN 4 ELSE 2
    ELSE IF v2.x < v0.x THEN 4 ELSE 1

\* the permutation of cvtemp that goes with std::swap(v2, v1)
Perm21(cvtemp) ==
  BitOr(BitOr(BitAnd(cvtemp \div 2, 2), BitAnd(cvtemp * 2, 4)), BitAnd(cvtemp, 1))

\* variant: cvtemp is left as it is when v1 and v0 are swapped
Perm10Omitted(cvtemp) == cvtemp

\* the permutation of cvtemp that goes with std::swap(v1, v0)
Perm10(cvtemp) ==
  BitOr(BitOr(BitAnd(cvtemp \div 2, 1), BitAnd(cvtemp * 2, 2)), BitAnd(cvtemp, 4))

SortStep21(t) ==
  IF t.v[3].y < t.v[2].y
    THEN [v |-> <<t.v[1], t.v[3], t.v[2]>>, cvtemp |-> Perm21(t.cvtemp)]
    ELSE t

SortStep10(t) ==
  IF t.v[2].y < t.v[1].y
    THEN [v |-> <<t.v[2], t.v[1], t.v[3]>>, cvtemp |-> Perm10(t.cvtemp)]
    ELSE t

\* vertices v0, v1, v2 (as v[1], v[2], v[3]) and core_vertex after the sort
TriSort(a, b, c) ==
  LET t == SortStep21(SortStep10(SortStep21(
             [v |-> <<a, b, c>>, cvtemp |-> InitialCvtemp(a, b, c)])))
  IN  [v |-> t.v, core_vertex |-> t.cvtemp \div 2]

\* variant: the height of the triangle is not tested
TriZeroHeightNever(v) == FALSE

TriZeroHeight(v) == v[1].y = v[3].y

\* variant: only the height is tested
TriOversizedHeightOnly(v) == (v[3].y - v[1].y) >= MAX_PRIMITIVE_HEIGHT

TriOversized(v) ==
  \/ Abs(v[3].x - v[1].x) >= MAX_PRIMITIVE_WIDTH
  \/ Abs(v[3].x - v[2].x) >= MAX_PRIMITIVE_WIDTH
  \/ Abs(v[2].x - v[1].x) >= MAX_PRIMITIVE_WIDTH
  \/ (v[3].y - v[1].y) >= MAX_PRIMITIVE_HEIGHT

\* CALCIS(x, y) with the two attributes given as the tuples of A, B, C
Calcis(p, q) ==
  ((p[2] - p[1]) * (q[3] - q[2])) - ((p[3] - p[2]) * (q[2] - q[1]))

Attr(v, f) == <<v[1][f], v[2][f], v[3][f]>>

\* variant: the two products are added
TriDenomSum(v) ==
  ((v[2].x - v[1].x) * (v[3].y - v[2].y)) + ((v[3].x - v[2].x) * (v[2].y - v[1].y))

TriDenom(v) == Calcis(Attr(v, "x"), Attr(v, "y"))

IDelta(num, denom) == U32ShlPad(TruncDiv(num * Pow2(COORD_FBS), denom))

\* idl as CalcIDeltas fills it (denom # 0); the members of a disabled group
\* are never read
CalcIDeltas(v, fl) ==
  LET X == Attr(v, "x")
      Y == Attr(v, "y")
      denom == TriDenom(v)
      DX(f) == IDelta(Calcis(Attr(v, f), Y), denom)
      DY(f) == IDelta(Calcis(X, Attr(v, f)), denom)
      Z == <<0, 0>>
  IN  [dr_dx |-> IF fl.shading THEN DX("r") ELSE Z, dr_dy |-> IF fl.shading THEN DY("r") ELSE Z,
       dg_dx |-> IF fl.shading THEN DX("g") ELSE Z, dg_dy |-> IF fl.shading THEN DY("g") ELSE Z,
       db_dx |-> IF fl.shading THEN DX("b") ELSE Z, db_dy |-> IF fl.shading THEN DY("b") ELSE Z,
       du_dx |-> IF fl.texture THEN DX("u") ELSE Z, du_dy |-> IF fl.texture THEN DY("u") ELSE Z,
       dv_dx |-> IF fl.texture THEN DX("v") ELSE Z, dv_dy |-> IF fl.texture THEN DY("v") ELSE Z]

AddIDeltas_DX(ig, idl, count, fl) ==
  [r |-> IF fl.shading THEN U32Add(ig.r, U32MulInt(idl.dr_dx, count)) ELSE ig.r,
   g |-> IF fl.shading THEN U32Add(ig.g, U32MulInt(idl.dg_dx, count)) ELSE ig.g,
   b |-> IF fl.shading THEN U32Add(ig.b, U32MulInt(idl.db_dx, count)) ELSE ig.b,
   u |-> IF fl.texture THEN U32Add(ig.u, U32MulInt(idl.du_dx, count)) ELSE ig.u,
   v |-> IF fl.texture THEN U32Add(ig.v, U32MulInt(idl.dv_dx, count)) ELSE ig.v]

AddIDeltas_DY(ig, idl, count, fl) ==
  [r |-> IF fl.shading THEN U32Add(ig.r, U32MulInt(idl.dr_dy, count)) ELSE ig.r,
   g |-> IF fl.shading THEN U32Add(ig.g, U32MulInt(idl.dg_dy, count)) ELSE ig.g,
   b |-> IF fl.shading THEN U32Add(ig.b, U32MulInt(idl.db_dy, count)) ELSE ig.b,
   u |-> IF fl.texture THEN U32Add(ig.u, U32MulInt(idl.du_dy, count)) ELSE ig.u,
   v |-> IF fl.texture THEN U32Add(ig.v, U32MulInt(idl.dv_dy, count)) ELSE ig.v]

\* (COORD_MF_INT(a) + (1 << (COORD_FBS - 1))) << COORD_POST_PADDING
IGStart(a) == <<a * 256 + 128, 0>>

\* ig before the span loop; u and v of a non-textured triangle are never
\* read by ShadePixel
InitialIG(cv, idl, fl) ==
  LET ig0 == [u |-> IF fl.texture THEN IGStart(cv.u) ELSE <<0, 0>>,
              v |-> IF fl.texture THEN IGStart(cv.v) ELSE <<0, 0>>,
              r |-> IGStart(cv.r), g |-> IGStart(cv.g), b |-> IGStart(cv.b)]
  IN  AddIDeltas_DY(AddIDeltas_DX(ig0, idl, -cv.x, fl), idl, -cv.y, fl)

\* variant: the span is not clipped to the left edge of the drawing area
SpanClipNoLeft(da, x_start, x_bound) ==
  LET x == TruncateGPUVertexPosition(x_start)
      w1 == x_bound - x_start
      w == IF (x + w1) > (da.right + 1) THEN da.right + 1 - x ELSE w1
  IN  [x |-> x, w |-> w, x_ig_adjust |-> x_start]

\* the clipped span: first x, width and the x added to the accumulators
SpanClip(da, x_start, x_bound) ==
  LET x0 == TruncateGPUVertexPosition(x_start)
      w0 == x_bound - x_start
      delta == IF x0 < da.left THEN da.left - x0 ELSE 0
      x == x0 + delta
      w1 == w0 - delta
      w == IF (x + w1) > (da.right + 1) THEN da.right + 1 - x ELSE w1
  IN  [x |-> x, w |-> w, x_ig_adjust |-> x_start + delta]

RECURSIVE SpanLoop(_, _, _, _, _, _, _, _)
SpanLoop(v, cmd, fl, x, y, w, ig, idl) ==
  LET v2 == ShadePixel(v, cmd, fl, x, y,
                       Truncate8(U32Shr24(ig.r)), Truncate8(U32Shr24(ig.g)),
                       Truncate8(U32Shr24(ig.b)), Truncate8(U32Shr24(ig.u)),
                       Truncate8(U32Shr24(ig.v)))
  IN  IF w - 1 > 0
        THEN SpanLoop(v2, cmd, fl, x + 1, y, w - 1, AddIDeltas_DX(ig, idl, 1, fl), idl)
        ELSE v2

DrawSpan(v, da, cmd, fl, y, x_start, x_bound, ig, idl) ==
  IF InterlaceSkip(cmd, y) THEN v
  ELSE LET c == SpanClip(da, x_start, x_bound)
       IN  IF c.w <= 0 THEN v
           ELSE SpanLoop(v, cmd, fl, c.x, y, c.w,
                         AddIDeltas_DY(AddIDeltas_DX(ig, idl, c.x_ig_adjust, fl), idl, y, fl),
                         idl)

\* the edge set-up: base_coord, base_step, bound_coord_us, bound_coord_ls,
\* right_facing
TriEdges(v) ==
  LET base_step == MakePolyXFPStep(v[3].x - v[1].x, v[3].y - v[1].y)
      us == IF v[2].y = v[1].y THEN <<0, 0, 0>>
            ELSE MakePolyXFPStep(v[2].x - v[1].x, v[2].y - v[1].y)
  IN  [base_coord |-> MakePolyXFP(v[1].x),
       base_step |-> base_step,
       bound_coord_us |-> us,
       bound_coord_ls |-> IF v[3].y = v[2].y THEN <<0, 0, 0>>
                          ELSE MakePolyXFPStep(v[3].x - v[2].x, v[3].y - v[2].y),
       right_facing |-> IF v[2].y = v[1].y THEN v[2].x > v[1].x
                        ELSE FxLess(base_step, us)]

\* a ^ b for the vertex indices 0..3
IdxXor(a, b) == BitXor(a, b)

\* tripart[0], tripart[1]; x_coord and x_step are the pairs <<[0], [1]>>
TriParts(v, core_vertex, e) ==
  LET vo == IF core_vertex # 0 THEN 1 ELSE 0
      vp == IF core_vertex = 2 THEN 3 ELSE 0
      V(i) == v[i + 1]
      Pair(rf_val, other) == IF e.right_facing THEN <<other, rf_val>> ELSE <<rf_val, other>>
      upper == [y_coord |-> V(IdxXor(0, vo)).y,
                y_bound |-> V(IdxXor(1, vo)).y,
                x_coord |-> Pair(MakePolyXFP(V(IdxXor(0, vo)).x),
                                 FxAdd(e.base_coord, FxMulInt(e.base_step, V(vo).y - V(0).y))),
                x_step |-> Pair(e.bound_coord_us, e.base_step),
                dec_mode |-> vo # 0]
      lower == [y_coord |-> V(IdxXor(1, vp)).y,
                y_bound |-> V(IdxXor(2, vp)).y,
                x_coord |-> Pair(MakePolyXFP(V(IdxXor(1, vp)).x),
                                 FxAdd(e.base_coord,
                                       FxMulInt(e.base_step, V(IdxXor(1, vp)).y - V(0).y))),
                x_step |-> Pair(e.bound_coord_ls, e.base_step),
                dec_mode |-> vp # 0]
  IN  IF vo = 1 THEN <<lower, upper>> ELSE <<upper, lower>>

RECURSIVE DecLoop(_, _, _, _, _, _, _, _, _, _, _)
DecLoop(v, da, cmd, fl, yi, yb, lc, ls, rc, rs, g) ==
  IF ~(yi > yb) THEN v
  ELSE LET yi2 == yi - 1
           lc2 == FxSub(lc, ls)
           rc2 == FxSub(rc, rs)
           y == TruncateGPUVertexPosition(yi2)
       IN  IF y < da.top THEN v
           ELSE DecLoop(IF y > da.bottom THEN v
                        ELSE DrawSpan(v, da, cmd, fl, yi2, GetPolyXFP_Int(lc2),
                                      GetPolyXFP_Int(rc2), g.ig, g.idl),
                        da, cmd, fl, yi2, yb, lc2, ls, rc2, rs, g)

RECURSIVE IncLoop(_, _, _, _, _, _, _, _, _, _, _)
IncLoop(v, da, cmd, fl, yi, yb, lc, ls, rc, rs, g) ==
  IF ~(yi < yb) THEN v
  ELSE LET y == TruncateGPUVertexPosition(yi)
       IN  IF y > da.bottom THEN v
           ELSE IncLoop(IF y >= da.top
                          THEN DrawSpan(v, da, cmd, fl, yi, GetPolyXFP_Int(lc),
                                        GetPolyXFP_Int(rc), g.ig, g.idl)
                          ELSE v,
                        da, cmd, fl, yi + 1, yb, FxAdd(lc, ls), ls, FxAdd(rc, rs), rs, g)

DrawHalf(v, da, cmd, fl, tp, g) ==
  IF tp.dec_mode
    THEN DecLoop(v, da, cmd, fl, tp.y_coord, tp.y_bound,
                 tp.x_coord[1], tp.x_step[1], tp.x_coord[2], tp.x_step[2], g)
    ELSE IncLoop(v, da, cmd, fl, tp.y_coord, tp.y_bound,
                 tp.x_coord[1], tp.x_step[1], tp.x_coord[2], tp.x_step[2], g)

\* the rows yi for which the decrementing loop calls DrawSpan, in order
RECURSIVE DecRows(_, _, _)
DecRows(da, yi, yb) ==
  IF ~(yi > yb) THEN <<>>
  ELSE LET y == TruncateGPUVertexPosition(yi - 1)
       IN  IF y < da.top THEN <<>>
           ELSE (IF y > da.bottom THEN <<>> ELSE <<yi - 1>>) \o DecRows(da, yi - 1, yb)

\* the rows yi for which the incrementing loop calls DrawSpan, in order
RECURSIVE IncRows(_, _, _)
IncRows(da, yi, yb) ==
  IF ~(yi < yb) THEN <<>>
  ELSE LET y == TruncateGPUVertexPosition(yi)
       IN  IF y > da.bottom THEN <<>>
           ELSE (IF y >= da.top THEN <<yi>> ELSE <<>>) \o IncRows(da, yi + 1, yb)

HalfRows(da, tp) ==
  IF tp.dec_mode THEN DecRows(da, tp.y_coord, tp.y_bound)
  ELSE IncRows(da, tp.y_coord, tp.y_bound)

\* the early returns of DrawTriangle
TriRejected(v) == TriZeroHeight(v) \/ TriOversized(v) \/ TriDenom(v) = 0

\* the return statement a call leaves DrawTriangle by, for sorted vertices
TriReturn(v) ==
  IF TriZeroHeight(v) THEN "zero_height"
  ELSE IF TriOversized(v) THEN "oversized"
  ELSE IF TriDenom(v) = 0 THEN "denom"
  ELSE "end"

\* dy of each MakePolyXFPStep call DrawTriangle makes, in the order of the
\* calls: base_step, bound_coord_us, bound_coord_ls (sorted vertices)
TriStepDivisors(v) ==
  IF TriZeroHeight(v) \/ TriOversized(v) THEN <<>>
  ELSE <<v[3].y - v[1].y>>
       \o (IF v[2].y = v[1].y THEN <<>> ELSE <<v[2].y - v[1].y>>)
       \o (IF v[3].y = v[2].y THEN <<>> ELSE <<v[3].y - v[2].y>>)

\* the divisor of each division CalcIDeltas executes: six with shading
\* enabled and four with texture enabled, none when CalcIDeltas is not
\* reached or returns false
TriDeltaDivisors(v, fl) ==
  IF TriZeroHeight(v) \/ TriOversized(v) \/ TriDenom(v) = 0 THEN <<>>
  ELSE [i \in 1 .. ((IF fl.shading THEN 6 ELSE 0) + (IF fl.texture THEN 4 ELSE 0)) |->
          TriDenom(v)]

\* the rows of the DrawSpan calls of an accepted triangle, tripart[0] first
TriRows(da, a, b, c) ==
  LET s == TriSort(a, b, c)
      tripart == TriParts(s.v, s.core_vertex, TriEdges(s.v))
  IN  IF TriRejected(s.v) THEN <<>>
      ELSE HalfRows(da, tripart[1]) \o HalfRows(da, tripart[2])

DrawTriangle(v, da, cmd, fl, a, b, c) ==
  LET s == TriSort(a, b, c)
  IN  IF TriRejected(s.v) THEN v
      ELSE LET idl == CalcIDeltas(s.v, fl)
               g == [ig |-> InitialIG(s.v[s.core_vertex + 1], idl, fl), idl |-> idl]
               tripart == TriParts(s.v, s.core_vertex, TriEdges(s.v))
           IN  DrawHalf(DrawHalf(v, da, cmd, fl, tripart[1], g), da, cmd, fl, tripart[2], g)

\* &DrawTriangle<shading, texture, raw_texture, transparency, dithering>
Tri(shading, texture, raw_texture, transparency, dithering) ==
  [shading |-> shading = 1, texture |-> texture = 1, raw |-> raw_texture = 1,
   transparent |-> transparency = 1, dither |-> dithering = 1]

\* the table, indexed [shading][texture][raw_texture][transparency][dithering]
\* (each index + 1)
DrawTriangleTable ==
  << << << << <<Tri(0,0,0,0,0), Tri(0,0,0,0,1)>>, <<Tri(0,0,0,1,0), Tri(0,0,0,1,1)>> >>,
           << <<Tri(0,0,0,0,0), Tri(0,0,0,0,0)>>, <<Tri(0,0,0,1,0), Tri(0,0,0,1,0)>> >> >>,
        << << <<Tri(0,1,0,0,0), Tri(0,1,0,0,1)>>, <<Tri(0,1,0,1,0), Tri(0,1,0,1,1)>> >>,
           << <<Tri(0,1,1,0,0), Tri(0,1,1,0,0)>>, <<Tri(0,1,1,1,0), Tri(0,1,1,1,0)>> >> >> >>,
     << << << <<Tri(1,0,0,0,0), Tri(1,0,0,0,1)>>, <<Tri(1,0,0,1,0), Tri(1,0,0,1,1)>> >>,
           << <<Tri(1,0,0,0,0), Tri(1,0,0,0,0)>>, <<Tri(1,0,0,1,0), Tri(1,0,0,1,0)>> >> >>,
        << << <<Tri(1,1,0,0,0), Tri(1,1,0,0,1)>>, <<Tri(1,1,0,1,0), Tri(1,1,0,1,1)>> >>,
           << <<Tri(1,1,1,0,0), Tri(1,1,1,0,0)>>, <<Tri(1,1,1,1,0), Tri(1,1,1,1,0)>> >> >> >> >>

B2I(b) == IF b THEN 1 ELSE 0

\* variant: every index selects the specialization with the same arguments
DrawTriangleDirect(shading, texture, raw_texture, transparency, dithering) ==
  Tri(B2I(shading), B2I(texture), B2I(raw_texture), B2I(transparency), B2I(dithering))

\* variant: the raw_texture index is not used
DrawTriangleIgnoreRaw(shading, texture, raw_texture, transparency, dithering) ==
  DrawTriangleTable[B2I(shading) + 1][B2I(texture) + 1][1]
                   [B2I(transparency) + 1][B2I(dithering) + 1]

DrawTriangleFunctions(shading, texture, raw_texture, transparency, dithering) ==
  DrawTriangleTable[B2I(shading) + 1][B2I(texture) + 1][B2I(raw_texture) + 1]
                   [B2I(transparency) + 1][B2I(dithering) + 1]

---------------------------------------------------------------------------
(* The blend as a function of two words: SpecBlend applies it to every     *)
(* pair of sampled words, in each transparency mode.                       *)

\* sampled values of one 5-bit channel: both ends, the middle, a carry pair
ChanSamples == {0, 1, 15, 16, 31}

BlendWords ==
  { r + 32 * g + 1024 * b + 32768 * m : r \in ChanSamples, g \in ChanSamples,
                                        b \in ChanSamples, m \in {0, 1} }

NoBlend == [mode |-> -1, fg |-> 0, bg |-> 0, out |-> 0]

FullArea == [left |-> 0, top |-> 0, right |-> VRAM_WIDTH - 1, bottom |-> VRAM_HEIGHT - 1]

InitBlend ==
  /\ vram = <<>>
  /\ drawing_area = FullArea
  /\ hist = <<>>
  /\ \E f \in BlendWords, b \in BlendWords :
        bl = [mode |-> -1, fg |-> f, bg |-> b, out |-> 0]

BlendStep ==
  /\ bl.mode = -1
  /\ \E m \in TransparencyModes :
        bl' = [bl EXCEPT !.mode = m, !.out = Blend(m, bl.fg, bl.bg)]
  /\ UNCHANGED <<vram, drawing_area, hist>>

NextBlend == BlendStep

SpecBlend == InitBlend /\ [][NextBlend]_vars

---------------------------------------------------------------------------
(* Inputs of the draw calls *)

\* VRAM contents given as a set of <<x, y, word>>
VramOf(S) ==
  [i \in { VRAM_WIDTH * t[2] + t[1] : t \in S } |->
     (CHOOSE t \in S : VRAM_WIDTH * t[2] + t[1] = i)[3]]

ZeroVram == <<>>

\* a small scene in the corner of VRAM: words with and without bit 15, a
\* word of palette indices at (0,1) and palette entries 0..2 in row 2
SceneVram ==
  VramOf({ <<1, 0, 32768>>, <<0, 1, 513>>, <<1, 1, 33760>>, <<2, 1, 32767>>,
           <<1, 2, 31>>, <<2, 2, 64512>> })

SmallArea == [left |-> 1, top |-> 0, right |-> 2, bottom |-> 1]

EmptyArea == [left |-> 0, top |-> 0, right |-> -1, bottom |-> -1]

InitStates ==
  { <<SceneVram, FullArea>>, <<SceneVram, SmallArea>>, <<SceneVram, EmptyArea>>,
    <<ZeroVram, FullArea>> }

\* cmd->params: the interlace filter and the words GetMaskAND() and
\* GetMaskOR() return, each 0 or 0x8000
Params(il, lsb, mask_and, mask_or) ==
  [interlaced_rendering |-> il, active_line_lsb |-> lsb,
   mask_and |-> mask_and, mask_or |-> mask_or]

ParamsSet ==
  { Params(FALSE, 0, 0, 0), Params(FALSE, 0, 32768, 0),
    Params(FALSE, 0, 0, 32768), Params(TRUE, 0, 0, 0),
    Params(TRUE, 1, 32768, 32768) }

IdentityWindow == [and_x |-> 255, and_y |-> 255, or_x |-> 0, or_y |-> 0]

\* the members of GPUBackendDrawCommand that ShadePixel reads
Command(params, texture_mode, transparency_mode, window) ==
  [params |-> params,
   draw_mode |-> [page_x |-> 0, page_y |-> 0, texture_mode |-> texture_mode,
                  transparency_mode |-> transparency_mode],
   palette |-> [xbase |-> 0, ybase |-> 2],
   window |-> window]

Sprite(c, x, y, width, height, color, tx, ty) ==
  [params |-> c.params, draw_mode |-> c.draw_mode, palette |-> c.palette, window |-> c.window,
   x |-> x, y |-> y, width |-> width, height |-> height, color |-> color,
   texcoord |-> [x |-> tx, y |-> ty]]

Vertex(x, y, r, g, b, u, v) == [x |-> x, y |-> y, r |-> r, g |-> g, b |-> b, u |-> u, v |-> v]

White == [r |-> 255, g |-> 255, b |-> 255]

Orange == [r |-> 255, g |-> 128, b |-> 8]

\* the colour and texture coordinates given to the i-th vertex of a call
VertexAt(pt, i) ==
  CASE i = 1 -> Vertex(pt[1], pt[2], 255, 128, 8, 0, 0)
    [] i = 2 -> Vertex(pt[1], pt[2], 16, 255, 64, 2, 1)
    [] OTHER -> Vertex(pt[1], pt[2], 96, 0, 255, 1, 2)

\* a call: the entry point, the template arguments of the function taken
\* from the table, the command and the vertices
Call(op, fl, cmd, vtx) == [op |-> op, fl |-> fl, cmd |-> cmd, vtx |-> vtx]

ApplyCall(v, da, c) ==
  CASE c.op = "DrawRectangle" -> DrawRectangle(v, da, c.cmd, c.fl)
    [] c.op = "DrawLine" -> DrawLine(v, da, c.cmd, c.fl, c.vtx[1], c.vtx[2])
    [] c.op = "DrawTriangle" -> DrawTriangle(v, da, c.cmd, c.fl, c.vtx[1], c.vtx[2], c.vtx[3])
    [] c.op = "ShadePixel" ->
         ShadePixel(v, c.cmd, c.fl, c.cmd.x, c.cmd.y, c.cmd.color.r, c.cmd.color.g,
                    c.cmd.color.b, c.cmd.texcoord.x, c.cmd.texcoord.y)

\* the effect of one draw call on the state
Draw(c) ==
  /\ vram' = ApplyCall(vram, drawing_area, c)
  /\ hist' = Append(hist, [call |-> c, pre |-> vram])
  /\ UNCHANGED <<drawing_area, bl>>

---------------------------------------------------------------------------
(* SpecCall: one draw call, with its arguments drawn from the sets below,  *)
(* applied to each initial VRAM and drawing area.                          *)

GridPoints == { <<x, y>> : x \in 0 .. MaxCoord, y \in 0 .. MaxCoord }

\* vertices whose distance to the grid reaches MAX_PRIMITIVE_WIDTH in x or
\* MAX_PRIMITIVE_HEIGHT in y
FarPoints == { <<-1024, 0>>, <<0, -512>> }

Points == GridPoints \cup FarPoints

\* [texture, raw_texture, transparency] indices with the draw mode
RectModes ==
  { <<FALSE, FALSE, FALSE, Direct16Bit, HalfBackgroundPlusHalfForeground>>,
    <<FALSE, TRUE, TRUE, Direct16Bit, HalfBackgroundPlusHalfForeground>>,
    <<TRUE, FALSE, FALSE, Direct16Bit, HalfBackgroundPlusHalfForeground>>,
    <<TRUE, TRUE, TRUE, Palette4Bit, BackgroundPlusForeground>>,
    <<TRUE, FALSE, TRUE, Palette8Bit, BackgroundMinusForeground>> }

RectCalls ==
  { Call("DrawRectangle", DrawRectangleFunctions(m[1], m[2], m[3]),
         Sprite(Command(p, m[4], m[5], IdentityWindow), x, y, w, h, Orange, 0, 0), <<>>) :
      m \in RectModes, p \in ParamsSet, x \in -1 .. 1, y \in -1 .. 1,
      w \in 0 .. MaxSize, h \in 0 .. MaxSize }

LineCalls ==
  { Call("DrawLine", DrawLineFunctions(sh, tr, di),
         Command(p, Direct16Bit, BackgroundPlusQuarterForeground, IdentityWindow),
         <<VertexAt(a, 1), VertexAt(b, 2)>>) :
      sh \in BOOLEAN, tr \in BOOLEAN, di \in BOOLEAN, p \in ParamsSet,
      a \in Points, b \in Points }

\* [shading, texture, raw_texture, transparency, dithering] indices with the
\* draw mode and the parameters
TriModes ==
  { <<FALSE, FALSE, FALSE, FALSE, FALSE, Direct16Bit, HalfBackgroundPlusHalfForeground,
      Params(FALSE, 0, 0, 0)>>,
    <<TRUE, FALSE, FALSE, TRUE, TRUE, Direct16Bit, HalfBackgroundPlusHalfForeground,
      Params(TRUE, 1, 32768, 32768)>>,
    <<FALSE, TRUE, FALSE, FALSE, FALSE, Direct16Bit, BackgroundPlusForeground,
      Params(FALSE, 0, 32768, 0)>>,
    <<TRUE, TRUE, TRUE, TRUE, FALSE, Palette4Bit, BackgroundPlusForeground,
      Params(TRUE, 0, 0, 0)>>,
    <<FALSE, TRUE, FALSE, TRUE, TRUE, Palette8Bit, BackgroundMinusForeground,
      Params(FALSE, 0, 0, 32768)>> }

TriCalls ==
  { Call("DrawTriangle", DrawTriangleFunctions(m[1], m[2], m[3], m[4], m[5]),
         Command(m[8], m[6], m[7], IdentityWindow),
         <<VertexAt(a, 1), VertexAt(b, 2), VertexAt(c, 3)>>) :
      m \in TriModes, a \in Points, b \in Points, c \in Points }

InitCall ==
  /\ \E s \in InitStates : vram = s[1] /\ drawing_area = s[2]
  /\ hist = <<>>
  /\ bl = NoBlend

CallDrawRectangle == hist = <<>> /\ \E c \in RectCalls : Draw(c)

CallDrawLine == hist = <<>> /\ \E c \in LineCalls : Draw(c)

CallDrawTriangle == hist = <<>> /\ \E c \in TriCalls : Draw(c)

NextCall == CallDrawRectangle \/ CallDrawLine \/ CallDrawTriangle

SpecCall == InitCall /\ [][NextCall]_vars

---------------------------------------------------------------------------
(* Spec: up to MaxDraws draw calls in sequence, each seeing the VRAM the   *)
(* calls before it left.                                                   *)

MaskParams ==
  { Params(FALSE, 0, 0, 0), Params(FALSE, 0, 32768, 0), Params(FALSE, 0, 0, 32768) }

SeqRectCalls ==
  { Call("DrawRectangle", DrawRectangleFunctions(m[1], m[2], m[3]),
         Sprite(Command(p, m[4], m[5], IdentityWindow), 1, 0, 2, 2, Orange, 0, 0), <<>>) :
      m \in RectModes, p \in MaskParams }

SeqLineCalls ==
  { Call("DrawLine", DrawLineFunctions(f, f, f),
         Command(p, Direct16Bit, BackgroundPlusForeground, IdentityWindow),
         <<VertexAt(e[1], 1), VertexAt(e[2], 2)>>) :
      f \in BOOLEAN, p \in MaskParams,
      e \in { <<<<0, 0>>, <<2, 1>>>>, <<<<2, 2>>, <<1, 0>>>> } }

SeqTriCalls ==
  { Call("DrawTriangle", DrawTriangleFunctions(m[1], m[2], m[3], m[4], m[5]),
         Command(m[8], m[6], m[7], IdentityWindow),
         <<VertexAt(<<0, 0>>, 1), VertexAt(<<3, 1>>, 2), VertexAt(<<1, 3>>, 3)>>) :
      m \in TriModes }

Init ==
  /\ \E s \in InitStates : vram = s[1] /\ drawing_area = s[2]
  /\ hist = <<>>
  /\ bl = NoBlend

DrawRectangleCall == Len(hist) < MaxDraws /\ \E c \in SeqRectCalls : Draw(c)

DrawLineCall == Len(hist) < MaxDraws /\ \E c \in SeqLineCalls : Draw(c)

DrawTriangleCall == Len(hist) < MaxDraws /\ \E c \in SeqTriCalls : Draw(c)

Next == DrawRectangleCall \/ DrawLineCall \/ DrawTriangleCall

Spec == Init /\ [][Next]_vars

---------------------------------------------------------------------------
(* SpecShade: one ShadePixel, in each specialization the tables            *)
(* instantiate, on the scene.                                              *)

\* <texture, raw_texture, transparency, dithering> as instantiated by
\* DrawRectangle, DrawLine and DrawSpan
ShadeSpecs ==
  { [shading |-> FALSE, texture |-> t[1], raw |-> t[2], transparent |-> tr, dither |-> t[3]] :
      t \in { <<FALSE, FALSE, FALSE>>, <<FALSE, FALSE, TRUE>>, <<TRUE, FALSE, FALSE>>,
              <<TRUE, FALSE, TRUE>>, <<TRUE, TRUE, FALSE>> },
      tr \in BOOLEAN }

ShiftWindow == [and_x |-> 2, and_y |-> 1, or_x |-> 1, or_y |-> 0]

ShadeCalls ==
  { Call("ShadePixel", fl,
         Sprite(Command(Params(FALSE, 0, ma, mo), tm, bm, w), xy[1], xy[2], 1, 1, col, tx, ty),
         <<>>) :
      fl \in ShadeSpecs, ma \in {0, 32768}, mo \in {0, 32768},
      tm \in TextureModes, bm \in TransparencyModes, w \in {IdentityWindow, ShiftWindow},
      xy \in { <<1, 1>>, <<2, 1>>, <<3, 3>> }, col \in {White, Orange},
      tx \in 0 .. 3, ty \in 1 .. 2 }

InitShade ==
  /\ vram = SceneVram
  /\ drawing_area = FullArea
  /\ hist = <<>>
  /\ bl = NoBlend

ShadePixelStep == hist = <<>> /\ \E c \in ShadeCalls : Draw(c)

NextShade == ShadePixelStep

SpecShade == InitShade /\ [][NextShade]_vars

---------------------------------------------------------------------------
(* SpecDispatch: one triangle drawn by the function that                   *)
(* DrawTriangleFunctions holds at each of its 32 indices.                  *)

TriIndices ==
  [shading : BOOLEAN, texture : BOOLEAN, raw_texture : BOOLEAN,
   transparency : BOOLEAN, dithering : BOOLEAN]

\* DrawTriangleFunctions[shading][texture][raw_texture][transparency][dithering]
Select(idx) ==
  DrawTriangleFunctions(idx.shading, idx.texture, idx.raw_texture,
                        idx.transparency, idx.dithering)

DispatchTriangles ==
  { << <<0, 0>>, <<3, 1>>, <<1, 3>> >>, << <<2, 0>>, <<0, 2>>, <<3, 3>> >> }

\* a call with the index it was selected by
DispatchCalls ==
  { [op |-> "DrawTriangle", fl |-> Select(idx),
     cmd |-> Command(Params(FALSE, 0, 0, 0), Direct16Bit, BackgroundPlusForeground,
                     IdentityWindow),
     vtx |-> <<VertexAt(t[1], 1), VertexAt(t[2], 2), VertexAt(t[3], 3)>>,
     idx |-> idx] :
      idx \in TriIndices, t \in DispatchTriangles }

InitDispatch ==
  /\ vram \in {SceneVram, ZeroVram}
  /\ drawing_area = FullArea
  /\ hist = <<>>
  /\ bl = NoBlend

DispatchTriangle == hist = <<>> /\ \E c \in DispatchCalls : Draw(c)

NextDispatch == DispatchTriangle

SpecDispatch == InitDispatch /\ [][NextDispatch]_vars

---------------------------------------------------------------------------
(* The last call of a run *)

HasCall == Len(hist) > 0

LastCall == hist[Len(hist)].call

Pre == hist[Len(hist)].pre

Word(v, i) == IF i \in DOMAIN v THEN v[i] ELSE 0

Inside(da, i) ==
  /\ da.left <= XOf(i) /\ XOf(i) <= da.right
  /\ da.top <= YOf(i) /\ YOf(i) <= da.bottom

IsDraw(c) == c.op \in {"DrawRectangle", "DrawLine", "DrawTriangle"}

---------------------------------------------------------------------------
(* Claims *)

\* the call c with cmd->params replaced
WithParams(c, p) == [c EXCEPT !.cmd.params = p]

\* C1: every VRAM word that DrawRectangle, DrawLine or DrawTriangle changes
\* lies inside the drawing area (left <= x <= right, top <= y <= bottom);
\* with the empty drawing area {0, 0, -1, -1} no word changes.
C1_WritesInsideDrawingArea ==
  (HasCall /\ IsDraw(LastCall)) =>
    /\ \A i \in Changed(Pre, vram) : Inside(drawing_area, i)
    /\ drawing_area = EmptyArea => vram = Pre

\* C1 witness: a triangle drawn under the small drawing area changed VRAM,
\* and under the full drawing area it would have changed words outside it.
C1_Witness ==
  /\ HasCall /\ LastCall.op = "DrawTriangle"
  /\ drawing_area = SmallArea
  /\ Changed(Pre, vram) # {}
  /\ \E i \in Changed(Pre, ApplyCall(Pre, FullArea, LastCall)) : ~Inside(drawing_area, i)

\* C2: a word that has a bit of mask_and set before a draw call has the
\* same value after it.
C2_MaskTestKeepsWord ==
  (HasCall /\ IsDraw(LastCall)) =>
    \A i \in DOMAIN Pre :
      BitAnd(Pre[i], GetMaskAND(LastCall.cmd)) # 0 => Word(vram, i) = Pre[i]

\* C2 witness: a call with mask_and = 0x8000 changed VRAM and left alone a
\* word with bit 15 set that the same call with mask_and = 0 overwrites.
C2_Witness ==
  /\ HasCall /\ IsDraw(LastCall)
  /\ GetMaskAND(LastCall.cmd) = 32768
  /\ Changed(Pre, vram) # {}
  /\ \E i \in Changed(Pre, ApplyCall(Pre, drawing_area,
                                      WithParams(LastCall, [LastCall.cmd.params EXCEPT !.mask_and = 0]))) :
        Bit15(Word(Pre, i)) = 1

\* VRAM after the k-th call of the run
PostOf(k) == IF k < Len(hist) THEN hist[k + 1].pre ELSE vram

\* C3 as stated: in a sequence of draw calls, whatever their mask_and, a
\* word with bit 15 set is not overwritten by any call.
C3_Original ==
  \A k \in 1 .. Len(hist) :
    \A i \in DOMAIN hist[k].pre :
      Bit15(hist[k].pre[i]) = 1 => Word(PostOf(k), i) = hist[k].pre[i]

\* C3 amended: in a sequence of draw calls, a word with bit 15 set is not
\* overwritten by any call whose mask_and has bit 15 set.
C3_MaskBitKeptUnderMaskAnd ==
  \A k \in 1 .. Len(hist) :
    Bit15(GetMaskAND(hist[k].call.cmd)) = 1 =>
      \A i \in DOMAIN hist[k].pre :
        Bit15(hist[k].pre[i]) = 1 => Word(PostOf(k), i) = hist[k].pre[i]

\* C3 witness: a first call set bit 15 of a word that had it clear, and a
\* second call with mask_and = 0x8000 changed VRAM around it.
C3_Witness ==
  /\ Len(hist) = 2
  /\ GetMaskAND(hist[2].call.cmd) = 32768
  /\ Changed(hist[2].pre, vram) # {}
  /\ \E i \in DOMAIN hist[2].pre :
        /\ Bit15(Word(hist[1].pre, i)) = 0
        /\ Bit15(hist[2].pre[i]) = 1
        /\ i \in Changed(hist[2].pre,
                          ApplyCall(hist[2].pre, drawing_area,
                                    WithParams(hist[2].call,
                                               [hist[2].call.cmd.params EXCEPT !.mask_and = 0])))

\* the arguments of a ShadePixel call
TexelOf(v, c) == SampleTexel(v, c.cmd, c.cmd.texcoord.x, c.cmd.texcoord.y)

\* C4: a textured ShadePixel whose texel, after the texture window and the
\* palette lookup, is 0x0000 changes no VRAM word, whatever the
\* specialization, the modes and the mask parameters.
C4_ZeroTexelDiscarded ==
  (HasCall /\ LastCall.op = "ShadePixel" /\ LastCall.fl.texture
     /\ TexelOf(Pre, LastCall) = 0) =>
    vram = Pre

\* C4 witness: a zero texel was sampled through a palette, for a pixel on a
\* non-zero background, with mask_or set and the mask test passing.
C4_Witness ==
  /\ HasCall /\ LastCall.op = "ShadePixel" /\ LastCall.fl.texture
  /\ LastCall.cmd.draw_mode.texture_mode = Palette4Bit
  /\ TexelOf(Pre, LastCall) = 0
  /\ GetPixel(Pre, LastCall.cmd.x, LastCall.cmd.y) = 32767
  /\ GetMaskOR(LastCall.cmd) = 32768
  /\ LastCall.fl.raw /\ LastCall.fl.transparent

\* C5: with interlaced_rendering and active_line_lsb = L, a rectangle, line
\* or triangle changes no word of a row y with (y & 1) = L.
C5_InterlaceRowsKept ==
  (HasCall /\ IsDraw(LastCall) /\ LastCall.cmd.params.interlaced_rendering) =>
    \A i \in Changed(Pre, vram) : YOf(i) % 2 # LastCall.cmd.params.active_line_lsb

\* C5 witness: an interlaced line changed VRAM, and without the filter it
\* changes a word of a filtered row.
C5_Witness ==
  /\ HasCall /\ LastCall.op = "DrawLine"
  /\ LastCall.cmd.params.interlaced_rendering
  /\ Changed(Pre, vram) # {}
  /\ \E i \in Changed(Pre, ApplyCall(Pre, drawing_area,
                                      WithParams(LastCall,
                                                 [LastCall.cmd.params EXCEPT
                                                    !.interlaced_rendering = FALSE]))) :
        YOf(i) % 2 = LastCall.cmd.params.active_line_lsb

\* C6: in mode BackgroundPlusForeground, for a foreground word with bit 15
\* set, each 5-bit channel of the result is min(31, fg channel + bg channel).
C6_AddSaturates ==
  (bl.mode = BackgroundPlusForeground /\ Bit15(bl.fg) = 1) =>
    \A i \in 0 .. 2 : Chan(bl.out, i) = MinOf(31, Chan(bl.fg, i) + Chan(bl.bg, i))

\* C6 witness: one channel saturates while its neighbour does not.
C6_Witness ==
  /\ bl.mode = BackgroundPlusForeground /\ Bit15(bl.fg) = 1
  /\ Chan(bl.fg, 0) + Chan(bl.bg, 0) > 31
  /\ Chan(bl.fg, 1) + Chan(bl.bg, 1) = 16
  /\ Chan(bl.out, 0) = 31 /\ Chan(bl.out, 1) = 16

\* C7: in mode BackgroundMinusForeground each 5-bit channel of the result
\* is max(0, bg channel - fg channel).
C7_SubSaturates ==
  bl.mode = BackgroundMinusForeground =>
    \A i \in 0 .. 2 : Chan(bl.out, i) = MaxOf(0, Chan(bl.bg, i) - Chan(bl.fg, i))

\* C7 witness: one channel would underflow while its neighbour does not.
C7_Witness ==
  /\ bl.mode = BackgroundMinusForeground
  /\ Chan(bl.bg, 0) < Chan(bl.fg, 0)
  /\ Chan(bl.bg, 1) - Chan(bl.fg, 1) = 15
  /\ Chan(bl.out, 0) = 0 /\ Chan(bl.out, 1) = 15

\* C8: the Add blend of foreground a over background b and that of b over
\* a have the same low 15 bits (foreground bit 15 set, background bit 15
\* cleared).
C8_AddSymmetric ==
  (bl.mode = BackgroundPlusForeground /\ Bit15(bl.fg) = 1) =>
    bl.out % 32768 = BlendAdd(BitOr(bl.bg, 32768), BitClear(bl.fg, 32768)) % 32768

\* C8 witness: two different colours were blended and a channel saturated.
C8_Witness ==
  /\ bl.mode = BackgroundPlusForeground /\ Bit15(bl.fg) = 1
  /\ bl.fg % 32768 # bl.bg % 32768
  /\ Chan(bl.out, 2) = 31 /\ Chan(bl.fg, 2) = 16 /\ Chan(bl.out, 0) = 1

Opaque(c) == ~c.fl.transparent /\ GetMaskAND(c.cmd) = 0 /\ GetMaskOR(c.cmd) = 0

\* C9: an opaque call with mask_and = 0 and mask_or = 0, made twice in a row
\* on an all-zero VRAM, leaves what the first call left.
C9_OpaqueDrawIdempotent ==
  (Len(hist) = 2 /\ hist[1].pre = ZeroVram /\ hist[1].call = hist[2].call
     /\ Opaque(hist[2].call)) =>
    vram = hist[2].pre

\* C9 witness: the call drawn twice changed the all-zero VRAM.
C9_Witness ==
  /\ Len(hist) = 2 /\ hist[1].pre = ZeroVram /\ hist[1].call = hist[2].call
  /\ Opaque(hist[2].call)
  /\ hist[2].pre # ZeroVram
  /\ hist[2].call.op = "DrawTriangle"

\* the caller's vertices of a call
LineTooLong(c) ==
  \/ Abs(c.vtx[2].x - c.vtx[1].x) >= 1024
  \/ Abs(c.vtx[2].y - c.vtx[1].y) >= 512

TriTooLarge(c) ==
  LET ys == { c.vtx[j].y : j \in 1 .. 3 }
  IN  \/ \E j, k \in 1 .. 3 : Abs(c.vtx[j].x - c.vtx[k].x) >= 1024
      \/ \E hi \in ys, lo \in ys : hi - lo >= 512

\* C10: DrawLine changes nothing when |dx| >= 1024 or |dy| >= 512, and
\* DrawTriangle changes nothing when an edge has |dx| >= 1024 or the y
\* extent is >= 512.
C10_OversizedDropped ==
  HasCall =>
    /\ (LastCall.op = "DrawLine" /\ LineTooLong(LastCall)) => vram = Pre
    /\ (LastCall.op = "DrawTriangle" /\ TriTooLarge(LastCall)) => vram = Pre

\* C10 witness: a triangle with an edge of |dx| = 1024 was called on the
\* scene under the full drawing area, and two of its vertices span rows of
\* the scene.
C10_Witness ==
  /\ HasCall /\ LastCall.op = "DrawTriangle" /\ TriTooLarge(LastCall)
  /\ drawing_area = FullArea /\ Pre = SceneVram
  /\ LastCall.vtx[1].x = -1024 /\ LastCall.vtx[2] .x = 3 /\ LastCall.vtx[2].y = 0
  /\ LastCall.vtx[3].x = 3 /\ LastCall.vtx[3].y = 3
  /\ ~LastCall.fl.texture /\ ~LastCall.fl.transparent

\* the caller's vertices are collinear, or all on one row
Degenerate(c) ==
  LET a == c.vtx[1]
      b == c.vtx[2]
      d == c.vtx[3]
  IN  \/ (b.x - a.x) * (d.y - a.y) - (d.x - a.x) * (b.y - a.y) = 0
      \/ (a.y = b.y /\ b.y = d.y)

\* C11: DrawTriangle with collinear vertices, or with zero height after the
\* sort, changes no VRAM word and leaves by one of its early returns.
C11_DegenerateDropped ==
  (HasCall /\ LastCall.op = "DrawTriangle" /\ Degenerate(LastCall)) =>
    /\ vram = Pre
    /\ TriReturn(TriSort(LastCall.vtx[1], LastCall.vtx[2], LastCall.vtx[3]).v) # "end"

\* C11 witness: three distinct collinear vertices of non-zero height, not
\* oversized, called on the scene under the full drawing area without shading
\* or texture.
C11_Witness ==
  /\ HasCall /\ LastCall.op = "DrawTriangle" /\ Degenerate(LastCall)
  /\ drawing_area = FullArea /\ Pre = SceneVram
  /\ LastCall.vtx[1].x = 2 /\ LastCall.vtx[1].y = 2
  /\ LastCall.vtx[2].x = 0 /\ LastCall.vtx[2].y = 0
  /\ LastCall.vtx[3].x = 1 /\ LastCall.vtx[3].y = 1
  /\ ~LastCall.fl.texture /\ ~LastCall.fl.shading
  /\ TriReturn(TriSort(LastCall.vtx[1], LastCall.vtx[2], LastCall.vtx[3]).v) = "denom"

\* the call was selected through the table by an index
Dispatched == HasCall /\ "idx" \in DOMAIN LastCall

\* C12 as stated: at every index of DrawTriangleFunctions with texture =
\* false the function selected is the same for both raw_texture indices and
\* has dithering off.
C12_Original ==
  (Dispatched /\ ~LastCall.idx.texture) =>
    /\ LastCall.fl = Select([LastCall.idx EXCEPT !.raw_texture = ~@])
    /\ ~LastCall.fl.dither

\* C12 amended: at every index with texture = false the function selected
\* has texture and raw_texture off and shading and transparency as indexed;
\* its dithering is the dithering index when the raw_texture index is false,
\* and off when the raw_texture index is true.
C12_TextureOffDispatch ==
  (Dispatched /\ ~LastCall.idx.texture) =>
    LastCall.fl = [shading |-> LastCall.idx.shading, texture |-> FALSE, raw |-> FALSE,
                   transparent |-> LastCall.idx.transparency,
                   dither |-> LastCall.idx.dithering /\ ~LastCall.idx.raw_texture]

\* C12 witness: a shaded triangle indexed with texture and raw_texture off
\* and dithering on was drawn dithered, and differs from the same triangle
\* drawn without dithering.
C12_Witness ==
  /\ Dispatched
  /\ ~LastCall.idx.texture /\ ~LastCall.idx.raw_texture
  /\ LastCall.idx.dithering /\ LastCall.idx.shading
  /\ LastCall.fl.dither
  /\ vram # ApplyCall(Pre, drawing_area, [LastCall EXCEPT !.fl.dither = FALSE])

\* C13: at every index of DrawTriangleFunctions with raw_texture = true the
\* function selected has dithering off, and its shading and transparency
\* are those of the index.
C13_RawTextureDispatch ==
  (Dispatched /\ LastCall.idx.raw_texture) =>
    /\ ~LastCall.fl.dither
    /\ LastCall.fl.shading = LastCall.idx.shading
    /\ LastCall.fl.transparent = LastCall.idx.transparency

\* C13 witness: a textured raw triangle indexed with shading, transparency
\* and dithering on was drawn by the raw specialization and changed VRAM.
C13_Witness ==
  /\ Dispatched
  /\ LastCall.idx.raw_texture /\ LastCall.idx.texture /\ LastCall.idx.dithering
  /\ LastCall.idx.shading /\ LastCall.idx.transparency
  /\ LastCall.fl.raw /\ ~LastCall.fl.dither
  /\ Changed(Pre, vram) # {}

\* C14: of two calls in sequence, the second reads the words the first
\* left: every word changed by a call with mask_or = 0x8000 is left as it is
\* by a next call with mask_and = 0x8000.
C14_NextCallSeesWrites ==
  \A k \in 1 .. Len(hist) - 1 :
    (hist[k].call.cmd.params.mask_or = 32768
       /\ hist[k + 1].call.cmd.params.mask_and = 32768) =>
      \A i \in Changed(hist[k].pre, PostOf(k)) : Word(PostOf(k + 1), i) = Word(PostOf(k), i)

\* C14 witness: A with mask_or = 0x8000 set bit 15 of a word, B with
\* mask_and = 0x8000 changed VRAM elsewhere and left that word, which B
\* overwrites when drawn before A; and B then A leaves another VRAM.
C14_Witness ==
  /\ Len(hist) = 2
  /\ hist[1].call.cmd.params.mask_or = 32768
  /\ hist[2].call.cmd.params.mask_and = 32768
  /\ Changed(hist[2].pre, vram) # {}
  /\ \E i \in Changed(hist[1].pre, hist[2].pre) :
        /\ Bit15(Word(hist[1].pre, i)) = 0
        /\ i \in Changed(hist[1].pre, ApplyCall(hist[1].pre, drawing_area, hist[2].call))
  /\ vram # ApplyCall(ApplyCall(hist[1].pre, drawing_area, hist[2].call),
                      drawing_area, hist[1].call)

\* the caller's endpoints are exchanged: p0.x >= p1.x and they differ
Exchanged(c) ==
  /\ c.vtx[1].x >= c.vtx[2].x
  /\ (c.vtx[1].x # c.vtx[2].x \/ c.vtx[1].y # c.vtx[2].y)

\* p0 and p1 of a line call as they are after the swap
FirstEnd(c) == IF Exchanged(c) THEN c.vtx[2] ELSE c.vtx[1]

LastEnd(c) == IF Exchanged(c) THEN c.vtx[1] ELSE c.vtx[2]

VisitsOf(c) ==
  LET L == LineSetup(c.vtx[1], c.vtx[2], c.fl)
  IN  LineVisits(L, L.cur, 0)

\* the segment of a call stretched by 255 in x and 127 in y
Stretched(c) ==
  [c EXCEPT !.vtx[1].x = @ * 255, !.vtx[1].y = @ * 127,
            !.vtx[2].x = @ * 255, !.vtx[2].y = @ * 127]

\* C15: an accepted DrawLine visits k + 1 positions, k = max(|dx|, |dy|),
\* the first being p0 and the last p1 as they are after the swap (& 2047);
\* with p0 = p1 inside the drawing area, not interlace-masked and passing the
\* mask test, the call makes the one write of ShadePixel at p0.  The last
\* position is also taken for the segment stretched to up to 1020 by 508.
C15_LineStepping ==
  (HasCall /\ LastCall.op = "DrawLine" /\ ~LineTooLong(LastCall)) =>
    LET c == LastCall
        k == MaxOf(Abs(c.vtx[2].x - c.vtx[1].x), Abs(c.vtx[2].y - c.vtx[1].y))
        vis == VisitsOf(c)
        x == c.vtx[1].x % 2048
        y == c.vtx[1].y % 2048
    IN  /\ Len(vis) = k + 1
        /\ vis[1] = <<FirstEnd(c).x % 2048, FirstEnd(c).y % 2048>>
        /\ vis[k + 1] = <<LastEnd(c).x % 2048, LastEnd(c).y % 2048>>
        /\ LET s == Stretched(c)
               L == LineSetup(s.vtx[1], s.vtx[2], s.fl)
           IN  <<LineX(LineEnd(L)), LineY(LineEnd(L))>> =
                 <<LastEnd(s).x % 2048, LastEnd(s).y % 2048>>
        /\ (k = 0 /\ LineVisible(drawing_area, c.cmd, x, y)
               /\ BitAnd(GetPixel(Pre, x, y), c.cmd.params.mask_and) = 0) =>
             /\ Changed(Pre, vram) \subseteq {VRAM_WIDTH * y + x}
             /\ vram = ShadePixel(Pre, c.cmd, c.fl, x, y, c.vtx[1].r, c.vtx[1].g,
                                  c.vtx[1].b, 0, 0)

\* C15 witness: a segment from (3, 0) to (0, 2), exchanged and with a
\* negative y step, changed three words or more of the all-zero VRAM.
C15_Witness ==
  /\ HasCall /\ LastCall.op = "DrawLine"
  /\ LastCall.vtx[1].x = 3 /\ LastCall.vtx[1].y = 0
  /\ LastCall.vtx[2].x = 0 /\ LastCall.vtx[2].y = 2
  /\ Pre = ZeroVram
  /\ Len(VisitsOf(LastCall)) = 4
  /\ Cardinality(Changed(Pre, vram)) >= 3

\* the sort of the vertices of a triangle call
SortOf(c) == TriSort(c.vtx[1], c.vtx[2], c.vtx[3])

\* the input vertex the x-comparisons before the sort select
SelectedByX(c) ==
  LET m == InitialCvtemp(c.vtx[1], c.vtx[2], c.vtx[3])
  IN  IF m = 1 THEN c.vtx[1] ELSE IF m = 2 THEN c.vtx[2] ELSE c.vtx[3]

\* C16: after the three compare-and-swap steps the vertices are the input
\* vertices in the order v0.y <= v1.y <= v2.y, core_vertex is 0, 1 or 2, and
\* vertices[core_vertex] is the input vertex the x-comparisons selected,
\* which has the least x of the three.
C16_SortKeepsCoreVertex ==
  (HasCall /\ LastCall.op = "DrawTriangle") =>
    LET s == SortOf(LastCall)
        in == {LastCall.vtx[j] : j \in 1 .. 3}
    IN  /\ s.v[1].y <= s.v[2].y /\ s.v[2].y <= s.v[3].y
        /\ {s.v[j] : j \in 1 .. 3} = in
        /\ s.core_vertex \in 0 .. 2
        /\ s.v[s.core_vertex + 1] = SelectedByX(LastCall)
        /\ \A w \in in : SelectedByX(LastCall).x <= w.x

\* C16 witness: the vertices were given in decreasing y, so that all three
\* swaps are made and the first input vertex, selected by x, ends as
\* vertices[2]; the triangle changed the all-zero VRAM.
C16_Witness ==
  /\ HasCall /\ LastCall.op = "DrawTriangle"
  /\ LastCall.vtx[1].x = 0 /\ LastCall.vtx[1].y = 3
  /\ LastCall.vtx[2].x = 2 /\ LastCall.vtx[2].y = 2
  /\ LastCall.vtx[3].x = 3 /\ LastCall.vtx[3].y = 0
  /\ SortOf(LastCall).core_vertex = 2
  /\ SortOf(LastCall).v[3] = LastCall.vtx[1]
  /\ Pre = ZeroVram /\ Changed(Pre, vram) # {}

\* the bounding box of the vertices of a triangle call
BoxOf(c) ==
  LET xs == {c.vtx[j].x : j \in 1 .. 3}
      ys == {c.vtx[j].y : j \in 1 .. 3}
  IN  [min_x |-> CHOOSE m \in xs : \A w \in xs : m <= w,
       max_x |-> CHOOSE m \in xs : \A w \in xs : m >= w,
       min_y |-> CHOOSE m \in ys : \A w \in ys : m <= w,
       max_y |-> CHOOSE m \in ys : \A w \in ys : m >= w]

RowsOf(c) == TriRows(drawing_area, c.vtx[1], c.vtx[2], c.vtx[3])

\* C17: DrawTriangle changes only words with min_y <= y < max_y and
\* min_x <= x < max_x over the three vertices, whatever core_vertex is, and
\* spans rows of [min_y, max_y) only, none of them twice.
C17_TriangleFootprint ==
  (HasCall /\ LastCall.op = "DrawTriangle") =>
    LET box == BoxOf(LastCall)
        rows == RowsOf(LastCall)
    IN  /\ \A i \in Changed(Pre, vram) :
              /\ box.min_y <= YOf(i) /\ YOf(i) < box.max_y
              /\ box.min_x <= XOf(i) /\ XOf(i) < box.max_x
        /\ \A j \in 1 .. Len(rows) : box.min_y <= rows[j] /\ rows[j] < box.max_y
        /\ \A j, k \in 1 .. Len(rows) : rows[j] = rows[k] => j = k

\* C17 witness: a triangle with core_vertex = 2, whose rows are stepped in
\* decreasing order, changed words of the all-zero VRAM in the last column
\* but one and in the last row but one of its bounding box.
C17_Witness ==
  /\ HasCall /\ LastCall.op = "DrawTriangle"
  /\ Pre = ZeroVram
  /\ SortOf(LastCall).core_vertex = 2
  /\ Len(RowsOf(LastCall)) = 3
  /\ RowsOf(LastCall)[1] > RowsOf(LastCall)[2]
  /\ \E i \in Changed(Pre, vram) : XOf(i) = BoxOf(LastCall).max_x - 1
  /\ \E i \in Changed(Pre, vram) : YOf(i) = BoxOf(LastCall).max_y - 1

\* a ShadePixel call whose mask test passes
ShadeWrites ==
  /\ HasCall /\ LastCall.op = "ShadePixel"
  /\ BitAnd(GetPixel(Pre, LastCall.cmd.x, LastCall.cmd.y), LastCall.cmd.params.mask_and) = 0

\* the word at the pixel of a ShadePixel call, after it
Stored == GetPixel(vram, LastCall.cmd.x, LastCall.cmd.y)

\* C18: the word a non-textured ShadePixel stores, opaque or
\* semi-transparent in any mode, has bit 15 equal to bit 15 of mask_or.
C18_NonTexturedMaskBit ==
  (ShadeWrites /\ ~LastCall.fl.texture) =>
    Bit15(Stored) = Bit15(LastCall.cmd.params.mask_or)

\* C18 witness: a non-textured semi-transparent pixel was blended over a
\* background, the blend had bit 15 set, and with mask_or = 0 the stored
\* word has it clear.
C18_Witness ==
  /\ ShadeWrites /\ ~LastCall.fl.texture /\ LastCall.fl.transparent
  /\ LastCall.cmd.params.mask_or = 0
  /\ GetPixel(Pre, LastCall.cmd.x, LastCall.cmd.y) = 32767
  /\ Bit15(Blend(LastCall.cmd.draw_mode.transparency_mode,
                 FlatColor(LastCall.fl, LastCall.cmd.x, LastCall.cmd.y, LastCall.cmd.color.r,
                           LastCall.cmd.color.g, LastCall.cmd.color.b),
                 32767)) = 1
  /\ Bit15(Stored) = 0 /\ Stored # 32767

\* the colour of a textured ShadePixel call before the blend
TexturedColor(c) ==
  IF c.fl.raw THEN TexelOf(Pre, c)
  ELSE ModulateColor(c.fl, c.cmd.x, c.cmd.y, TexelOf(Pre, c), c.cmd.color.r,
                     c.cmd.color.g, c.cmd.color.b)

\* C19: a textured semi-transparent ShadePixel stores a non-zero texel
\* with bit 15 clear unblended, as its raw or modulated colour OR mask_or;
\* a texel with bit 15 set is blended with the background in the
\* transparency mode, and the word stored has bit 15 set.
C19_BlendGatedByTexelBit ==
  (ShadeWrites /\ LastCall.fl.texture /\ LastCall.fl.transparent
     /\ TexelOf(Pre, LastCall) # 0) =>
    LET c == LastCall
        bg_color == GetPixel(Pre, c.cmd.x, c.cmd.y)
    IN  IF Bit15(TexelOf(Pre, c)) = 0
          THEN Stored = BitOr(TexturedColor(c), c.cmd.params.mask_or)
          ELSE /\ Stored = BitOr(Blend(c.cmd.draw_mode.transparency_mode, TexturedColor(c),
                                       bg_color),
                                 c.cmd.params.mask_or)
               /\ Bit15(Stored) = 1

\* C19 witness: a texel with bit 15 clear was stored unblended over a
\* non-zero background with which its blend differs.
C19_Witness ==
  /\ ShadeWrites /\ LastCall.fl.texture /\ LastCall.fl.transparent
  /\ TexelOf(Pre, LastCall) # 0 /\ Bit15(TexelOf(Pre, LastCall)) = 0
  /\ GetPixel(Pre, LastCall.cmd.x, LastCall.cmd.y) = 32767
  /\ LastCall.cmd.params.mask_or = 0
  /\ Stored = TexturedColor(LastCall)
  /\ Stored # Blend(LastCall.cmd.draw_mode.transparency_mode, TexturedColor(LastCall), 32767)

\* C20: every word a non-shaded DrawLine changes is what ShadePixel stores
\* there for the RGB of p0 as it is after the swap: the caller's second
\* endpoint when p0.x >= p1.x and the endpoints differ, else the first.
C20_FlatLineColour ==
  (HasCall /\ LastCall.op = "DrawLine" /\ ~LastCall.fl.shading /\ ~LineTooLong(LastCall)) =>
    LET c == LastCall
        e == FirstEnd(c)
    IN  \A i \in Changed(Pre, vram) :
          Word(vram, i) = Word(ShadePixel(Pre, c.cmd, c.fl, XOf(i), YOf(i), e.r, e.g, e.b, 0, 0), i)

\* C20 witness: a non-shaded opaque line whose endpoints are exchanged
\* wrote the colour of the caller's second endpoint, (16, 255, 64), to three
\* words or more of the all-zero VRAM.
C20_Witness ==
  /\ HasCall /\ LastCall.op = "DrawLine" /\ ~LastCall.fl.shading
  /\ ~LastCall.fl.transparent /\ ~LastCall.fl.dither
  /\ LastCall.cmd.params.mask_or = 0
  /\ Exchanged(LastCall)
  /\ Pre = ZeroVram
  /\ Cardinality(Changed(Pre, vram)) >= 3
  /\ \A i \in Changed(Pre, vram) : Word(vram, i) = 2 + 32 * 31 + 1024 * 8

\* the vertices of a triangle call moved apart: x times 255, y times 127
StretchedTri(c) ==
  [c EXCEPT !.vtx[1].x = @ * 255, !.vtx[1].y = @ * 127,
            !.vtx[2].x = @ * 255, !.vtx[2].y = @ * 127,
            !.vtx[3].x = @ * 255, !.vtx[3].y = @ * 127]

\* every position of the call is the sign extension of an 11-bit value
InRange(c) ==
  \A i \in DOMAIN c.vtx :
    /\ TruncateGPUVertexPosition(c.vtx[i].x) = c.vtx[i].x
    /\ TruncateGPUVertexPosition(c.vtx[i].y) = c.vtx[i].y

\* the call with its vertices as given and, where they stay in range, moved
\* apart
Variants(c) ==
  {c} \cup { s \in {IF c.op = "DrawTriangle" THEN StretchedTri(c) ELSE Stretched(c)} :
               InRange(s) }

StepDivisorsOf(c) == TriStepDivisors(SortOf(c).v)

DeltaDivisorsOf(c) == TriDeltaDivisors(SortOf(c).v, c.fl)

LineDivisorsOf(c) == LineDivisors(c.vtx[1], c.vtx[2], c.fl)

\* C21: no division of a draw call has a zero divisor. In a DrawTriangle
\* call every MakePolyXFPStep call is made with dy > 0 and every division of
\* CalcIDeltas has a non-zero denom; in a DrawLine call the divisor of
\* LineDivide and of the colour steps is k > 0. Checked for the vertices of
\* the call and for the same vertices moved apart by 255 in x and 127 in y.
C21_NoDivisionByZero ==
  (HasCall /\ LastCall.op \in {"DrawTriangle", "DrawLine"}) =>
    \A c \in Variants(LastCall) :
      IF c.op = "DrawTriangle"
        THEN LET v == SortOf(c).v
                 dy == TriStepDivisors(v)
                 denom == TriDeltaDivisors(v, c.fl)
             IN  /\ \A i \in DOMAIN dy : dy[i] > 0
                 /\ \A i \in DOMAIN denom : denom[i] # 0
        ELSE LET k == LineDivisorsOf(c)
             IN  \A i \in DOMAIN k : k[i] > 0

\* C21 witness: a shaded triangle whose two upper vertices share a row was
\* drawn: MakePolyXFPStep was called for base_step and bound_coord_ls only,
\* CalcIDeltas divided by denom, and VRAM changed.
C21_Witness ==
  /\ HasCall /\ LastCall.op = "DrawTriangle" /\ LastCall.fl.shading
  /\ SortOf(LastCall).v[1].y = SortOf(LastCall).v[2].y
  /\ Len(StepDivisorsOf(LastCall)) = 2
  /\ Len(DeltaDivisorsOf(LastCall)) >= 6
  /\ vram # Pre

=============================================================================
